---- MODULE Spec2Model ----
(***************************************************************************)
(* A model of virtualenv_tools.py: relocation of a virtual environment.    *)
(*                                                                         *)
(* A path is the sequence of its components: <<"a","b">> is /a/b, <<>> is  *)
(* the root, an empty last component is a separator at the end (/a/ is     *)
(* <<"a","">>); a relative path is the sequence of the components with no  *)
(* separator before the first. A line of a text file is a sequence of      *)
(* tokens, each token a run of bytes: the text of the line is the          *)
(* concatenation of its tokens, the text of a path token being a separator *)
(* before each of its components (a separator alone for none), so slicing  *)
(* a line at a token boundary is slicing its text.                         *)
(***************************************************************************)
EXTENDS Integers, Sequences, FiniteSets, TLC

VARIABLES
    fs,        \* the environment on disk
    inp,       \* the command line, but for --force, WORKON_HOME and the working directory
    act0,      \* the binary directory as it was first found
    fs_start,  \* the environment as the run found it
    st,        \* where main is: Idle, Rewriting, or how the last run ended
    phase,     \* the call of update_paths in progress
    idx,       \* the entry that call handles next
    run,       \* the run's --force, update_path, base_python_dir and venv
    out,       \* the lines printed by the run
    ret,       \* what main returned: "0", "1", "2" for argparse's exit, "raise" for an exception
    writes,    \* the files the run wrote or removed, in order
    prev,      \* how the run before ended
    restored,  \* whether bin/activate was put back since the last run
    runs       \* the runs started

\* ------------------------------------------------------------------ text

Lit(x) == [k |-> "lit", s |-> <<x>>]
PathTok(p) == [k |-> "path", s |-> p]
BANG == [k |-> "bang", s |-> <<>>]
SP == [k |-> "sp", s |-> <<>>]
NL == [k |-> "nl", s |-> <<>>]
DQ == [k |-> "dq", s |-> <<>>]
SQ == [k |-> "sq", s |-> <<>>]
EQ == [k |-> "eq", s |-> <<>>]
VENV == Lit("VIRTUAL_ENV")

IsQuote(t) == t.k \in {"dq", "sq"}
IsSpace(t) == t.k \in {"sp", "nl"}

Min(a, b) == IF a < b THEN a ELSE b

\* The least element of a non-empty set of integers.
Least(S) == CHOOSE x \in S : \A y \in S : x <= y

\* ----------------------------------------------------------------- paths

\* The component names of the model that begin with a dot.
DotNames == {".", "..", ".tox"}

\* bytes.startswith(b"."), of a component.
StartsWithDot(c) == Len(c) >= 1 /\ SubSeq(c, 1, 1) = "."

\* Where the environment lies on disk, and a symbolic link to it.
EnvPath == <<"env">>
LinkPath == <<"lnk">>

IsPrefix(p, q) == Len(p) <= Len(q) /\ SubSeq(q, 1, Len(p)) = p

CommonLen(p, q) ==
    LET n == Min(Len(p), Len(q))
        same == {i \in 0..n : \A j \in 1..i : p[j] = q[j]}
    IN CHOOSE i \in same : \A j \in same : j <= i

\* os.path.normpath of an absolute path: the empty component and '.' are
\* dropped, '..' takes the component before it away (none at the root).
RECURSIVE normpath_from(_, _)
normpath_from(done, rest) ==
    IF rest = <<>> THEN done
    ELSE IF rest[1] \in {"", "."} THEN normpath_from(done, Tail(rest))
    ELSE IF rest[1] = ".."
    THEN normpath_from(IF done = <<>> THEN done ELSE SubSeq(done, 1, Len(done) - 1), Tail(rest))
    ELSE normpath_from(Append(done, rest[1]), Tail(rest))

normpath(p) == normpath_from(<<>>, p)

\* os.path.relpath(path, start) of two absolute paths: both are normalised,
\* then start is left by '..' as far as the two differ.
relpath(path, start) ==
    LET p == normpath(path)
        s == normpath(start)
        k == CommonLen(p, s)
        rel == [i \in 1..(Len(s) - k) |-> ".."] \o SubSeq(p, k + 1, Len(p))
    IN IF rel = <<>> THEN <<".">> ELSE rel

\* os.path.join(a, rel) of a relative rel: the texts joined by a separator,
\* none added after a separator a ends with; an empty rel leaves a with a
\* separator at its end.
join(a, rel) ==
    LET base == IF a # <<>> /\ a[Len(a)] = "" THEN SubSeq(a, 1, Len(a) - 1) ELSE a
    IN IF rel # <<>> THEN base \o rel
       ELSE IF base = <<>> THEN <<>>
       ELSE Append(base, "")

path_is_within(path, within) == ~StartsWithDot(relpath(path, within)[1])

\* os.getcwd(): the working directory of the process.
getcwd == inp.cwd

\* os.path.abspath of a relative path.
abspath(rel) == normpath(getcwd \o rel)

\* The bytes of a token that is no path.
Glyph(t) ==
    CASE t.k = "lit" -> t.s[1]
      [] t.k = "bang" -> "#!"
      [] t.k = "sp" -> " "
      [] t.k = "nl" -> "\n"
      [] t.k = "dq" -> "\""
      [] t.k = "sq" -> "'"
      [] t.k = "eq" -> "="

\* A text read as a path, token by token: whether it begins with a
\* separator, and its components. The separators are those of the path
\* tokens; the bytes of the other tokens belong to the component they stand
\* in.
RECURSIVE TextPathFrom(_, _, _, _, _)
TextPathFrom(ts, started, abs, comps, cur) ==
    IF ts = <<>>
    THEN [abs |-> abs,
          c |-> IF ~started \/ (comps = <<>> /\ cur = "") THEN <<>> ELSE Append(comps, cur)]
    ELSE IF ts[1].k = "path"
    THEN LET p == ts[1].s
             closed == IF started THEN Append(comps, cur) ELSE comps
         IN IF p = <<>>
            THEN TextPathFrom(Tail(ts), TRUE, abs \/ ~started, closed, "")
            ELSE TextPathFrom(Tail(ts), TRUE, abs \/ ~started,
                              closed \o SubSeq(p, 1, Len(p) - 1), p[Len(p)])
    ELSE TextPathFrom(Tail(ts), TRUE, abs, comps, cur \o Glyph(ts[1]))

TextPath(ts) == TextPathFrom(ts, FALSE, FALSE, <<>>, "")

\* ---------------------------------------------------- activation scripts

\* The alternatives of the pattern's optional prefix, in the pattern's order.
ActPrefixes ==
    << <<Lit("set"), SP, Lit("-gx"), SP>>, <<Lit("setenv"), SP>>, <<Lit("set"), SP, DQ>>, <<>> >>

\* s matches ['"]*\s*$ .
IsTail(s) ==
    \E k \in 0..Len(s) :
        /\ \A i \in 1..k : IsQuote(s[i])
        /\ \A i \in (k + 1)..Len(s) : IsSpace(s[i])

\* The match of _activation_path_re at the start of a line: whether it
\* matches, and the span [gs, ge) of the captured path (1-based tokens).
activation_path_re(line) ==
    LET alts == {i \in 1..Len(ActPrefixes) :
                    LET n == Len(ActPrefixes[i])
                    IN /\ Len(line) >= n + 2
                       /\ SubSeq(line, 1, n) = ActPrefixes[i]
                       /\ line[n + 1] = VENV
                       /\ line[n + 2].k \in {"sp", "eq"}}
    IN IF alts = {} THEN [ok |-> FALSE, gs |-> 0, ge |-> 0]
       ELSE LET n == Len(ActPrefixes[Least(alts)])
                gs == Least({i \in (n + 3)..(Len(line) + 1) :
                                i = Len(line) + 1 \/ ~IsQuote(line[i])})
                ge == Least({i \in gs..(Len(line) + 1) :
                                IsTail(SubSeq(line, i, Len(line)))})
            IN [ok |-> \A i \in gs..(ge - 1) : line[i].k # "nl", gs |-> gs, ge |-> ge]

\* _handle_sub: text[:g_start - start] + new_path + text[g_end - end:], and
\* Python's text[0:] is the whole text.
handle_sub(line, m, new_path) ==
    SubSeq(line, 1, m.gs - 1) \o <<PathTok(new_path)>>
        \o (IF m.ge > Len(line) THEN line ELSE SubSeq(line, m.ge, Len(line)))

\* _activation_path_re.sub(_handle_sub, line)
SubLine(line, new_path) ==
    LET m == activation_path_re(line)
    IN IF m.ok THEN handle_sub(line, m, new_path) ELSE line

\* update_activation_script with the changed flag never set: nothing is
\* written.
update_activation_script_unchanged(lines, new_path) ==
    [lines |-> lines, written |-> FALSE]

\* update_activation_script on the lines of a file: the lines it holds
\* afterwards and whether the file was written.
update_activation_script(lines, new_path) ==
    LET new_lines == [i \in 1..Len(lines) |-> SubLine(lines[i], new_path)]
    IN [lines |-> new_lines, written |-> new_lines # lines]

\* The first line that starts with VIRTUAL_ENV=" or VIRTUAL_ENV=', split at
\* that quote: the text up to the next such quote.
StartsAssign(line) ==
    Len(line) >= 3 /\ line[1] = VENV /\ line[2] = EQ /\ IsQuote(line[3])

get_orig_path(lines) ==
    LET hits == {i \in 1..Len(lines) : StartsAssign(lines[i])}
    IN IF hits = {} THEN [found |-> FALSE, text |-> <<>>]
       ELSE LET line == lines[Least(hits)]
                rest == SubSeq(line, 4, Len(line))
                ends == {j \in 1..Len(rest) : rest[j] = line[3]}
            IN [found |-> TRUE,
                text |-> IF ends = {} THEN rest ELSE SubSeq(rest, 1, Least(ends) - 1)]

\* ---------------------------------------------------------------- scripts

\* bytes.split(): the maximal runs of tokens that are not white space.
RECURSIVE split(_)
split(ts) ==
    IF ts = <<>> THEN <<>>
    ELSE IF IsSpace(ts[1]) THEN split(Tail(ts))
    ELSE LET stops == {i \in 1..Len(ts) : IsSpace(ts[i])}
             n == IF stops = {} THEN Len(ts) ELSE Least(stops) - 1
         IN <<SubSeq(ts, 1, n)>> \o split(SubSeq(ts, n + 1, Len(ts)))

\* b" ".join(args)
RECURSIVE join_args(_)
join_args(args) ==
    IF args = <<>> THEN <<>>
    ELSE IF Len(args) = 1 THEN args[1]
    ELSE args[1] \o <<SP>> \o join_args(Tail(args))

\* line.find(b'#!'): the position of the first marker of a line, 0 for none.
find_shebang(line) ==
    LET at == {i \in 1..Len(line) : line[i] = BANG}
    IN IF at = {} THEN 0 ELSE Least(at)

\* os.path.isabs of a text: it begins with a separator.
IsAbsArg(arg) == TextPath(arg).abs

\* The path the system looks up for a text: an absolute path as it is, a
\* relative one (the empty text too) from the working directory.
RawPath(arg) == IF IsAbsArg(arg) THEN TextPath(arg).c ELSE getcwd \o TextPath(arg).c

\* os.path.abspath of a text, as os.path.relpath takes its arguments.
ArgPath(arg) == normpath(RawPath(arg))

\* Lines 113 to 122 for one line: whether the line is the one to rewrite.
IsShebangOf(line, old_path) ==
    LET off == find_shebang(line)
        args == split(SubSeq(line, off + 1, Len(line)))
    IN /\ off > 0
       /\ args # <<>>
       /\ path_is_within(ArgPath(args[1]), old_path)

\* Lines 124 and 146-147: the rewritten line.
rewrite_shebang(line, old_path, new_path) ==
    LET off == find_shebang(line)
        args == split(SubSeq(line, off + 1, Len(line)))
        new_bin == join(new_path, relpath(ArgPath(args[1]), old_path))
    IN SubSeq(line, 1, off) \o join_args(<<(<<PathTok(new_bin)>>)>> \o Tail(args)) \o <<NL>>

\* Whether f.read(2) is the marker.
starts_with_marker(lines) ==
    Len(lines) >= 1 /\ Len(lines[1]) >= 1 /\ lines[1][1] = BANG

\* The lines update_script may choose from.
shebang_candidates(lines, old_path) ==
    {i \in 1..Len(lines) : IsShebangOf(lines[i], old_path)}

\* update_script (POSIX) on the lines of a file: the lines it holds afterwards
\* and whether the file was written.
update_script(lines, old_path, new_path) ==
    LET hits == shebang_candidates(lines, old_path)
    IN IF ~starts_with_marker(lines) \/ hits = {}
       THEN [lines |-> lines, written |-> FALSE]
       ELSE LET i == Least(hits)
            IN [lines |-> [lines EXCEPT ![i] = rewrite_shebang(lines[i], old_path, new_path)],
                written |-> TRUE]

\* ------------------------------------------------------------ cache files

\* Python's equality of two code objects: every field but co_filename.
RECURSIVE code_eq(_, _)
code_eq(a, b) ==
    /\ a.body = b.body
    /\ Len(a.consts) = Len(b.consts)
    /\ \A i \in 1..Len(a.consts) : code_eq(a.consts[i], b.consts[i])

\* _process: the code object returned, and whether it is the one passed in.
RECURSIVE process(_, _)
process(code, new_path) ==
    LET sub == [i \in 1..Len(code.consts) |-> process(code.consts[i], new_path)]
        consts == [i \in 1..Len(sub) |-> sub[i].code]
        differ == \E i \in 1..Len(consts) :
                      ~sub[i].same /\ ~code_eq(consts[i], code.consts[i])
    IN IF new_path # code.fn \/ differ
       THEN [code |-> [code EXCEPT !.fn = new_path, !.consts = consts], same |-> FALSE]
       ELSE [code |-> code, same |-> TRUE]

\* update_pyc on a file that marshal loads: the file afterwards and whether it
\* was written. The header is written back as read.
update_pyc(f, new_path) ==
    LET r == process(f.code, new_path)
    IN IF r.same THEN [file |-> f, written |-> FALSE]
       ELSE [file |-> [f EXCEPT !.code = r.code], written |-> TRUE]

\* get_new_path of update_pycs: the file's path below the library directory,
\* re-rooted at new_path.
get_new_path(f, new_path) == join(new_path, f.rel)

\* ---------------------------------------------------------- path manifests

\* The platform of the build modelled: os.name is not "nt".
IS_WINDOWS == FALSE

\* The ascent with two levels for pypy.
pth_rel_listed(is_pypy, is_windows) ==
    IF is_pypy \/ is_windows THEN <<"..", "..">> ELSE <<"..", "..", "..">>

\* The ascent of a manifest line, by flavor and by the value of IS_WINDOWS:
\* '..' for pypy, else '../..' on Windows, else '../../..'.
pth_rel_for(is_pypy, is_windows) ==
    IF is_pypy THEN <<"..">>
    ELSE IF is_windows THEN <<"..", "..">>
    ELSE <<"..", "..", "..">>

\* The ascent of a manifest line on the build modelled.
pth_rel(is_pypy) == pth_rel_for(is_pypy, IS_WINDOWS)

\* _update_pth_file on the lines of a file, IS_WINDOWS given.
update_pth_file_for(lines, orig_path, is_pypy, is_windows) ==
    LET eligible(l) == l.k = "abs"
        new_lines == [i \in 1..Len(lines) |->
                        IF eligible(lines[i])
                        THEN [k |-> "rel",
                              p |-> join(pth_rel_for(is_pypy, is_windows),
                                         relpath(lines[i].p, orig_path))]
                        ELSE lines[i]]
    IN [lines |-> new_lines, written |-> \E i \in 1..Len(lines) : eligible(lines[i])]

\* _update_pth_file on the lines of a file.
update_pth_file(lines, orig_path, is_pypy) ==
    update_pth_file_for(lines, orig_path, is_pypy, IS_WINDOWS)

\* ---------------------------------------------------------------- config

\* update_pyvenv_cfg on the lines of the file: "raise" when a line before the
\* home line does not split at one '=' into two parts.
update_pyvenv_cfg(lines, new_path) ==
    LET homes == {i \in 1..Len(lines) : lines[i].neq = 1 /\ lines[i].key = "home"}
        bad == {i \in 1..Len(lines) : lines[i].neq # 1}
        h == IF homes = {} THEN Len(lines) + 1 ELSE Least(homes)
    IN IF \E i \in bad : i < h
       THEN [lines |-> lines, written |-> FALSE, raised |-> TRUE]
       ELSE IF homes = {}
       THEN [lines |-> lines, written |-> FALSE, raised |-> FALSE]
       ELSE [lines |-> [lines EXCEPT ![h] = [key |-> "home", neq |-> 1, val |-> new_path]],
             written |-> TRUE, raised |-> FALSE]

\* ------------------------------------------------------------- detection

ACTIVATION_SCRIPTS ==
    {"activate", "activate.csh", "activate.fish", "activate.xsh", "activate.bat",
     "Activate.ps1", "activate.ps1", "activate_this.py"}

BIN_DIR == "bin"

\* os.path.isfile of an entry of the binary directory.
isfile(e) == e.kind = "file"

\* The entries of the binary directory of that name.
Named(f, name) == {i \in 1..Len(f.bin) : f.bin[i].name = name}

base_lib_dir(path, f) == join(path, <<(IF f.isPypy THEN "lib-python" ELSE "lib")>>)

\* The one versioned library directory of a well-formed environment.
lib_dir(path, f) == base_lib_dir(path, f) \o <<(IF f.isPypy THEN "2.7" ELSE "python3.8")>>

\* venv.lib_dirs: the versioned directory and, for pypy, lib_pypy.
lib_dirs(path, f) ==
    <<lib_dir(path, f)>> \o (IF f.isPypy THEN <<join(path, <<"lib_pypy">>)>> ELSE <<>>)

site_packages(path, f) ==
    join(IF f.isPypy THEN path ELSE lib_dir(path, f), <<"site-packages">>)

\* ------------------------------------------------------------------ disk

\* sys.executable, the default of --base-python-dir.
SysExecutable == <<"usr", "bin", "python3">>

\* The directory the linked cache files point into, and where a dangling
\* link points.
SharedPath == <<"shared">>
NowherePath == <<"nowhere">>

\* The second entry of the library base directory that matches the version
\* pattern.
second_lib_dir(path, f) == base_lib_dir(path, f) \o <<(IF f.isPypy THEN "3.9" ELSE "python3.9")>>

\* Cache file j of the environment, from the environment's directory, and
\* whether the directory it is listed under is there.
PycRel(j) ==
    (<<(<<BIN_DIR>>), lib_dir(<<>>, fs), <<"lib_pypy">>>>)[fs.pycs[j].lib + 1] \o fs.pycs[j].rel

PycHeld(j) ==
    CASE fs.pycs[j].lib = 0 -> fs.hasBin
      [] fs.pycs[j].lib = 1 -> fs.hasLib /\ fs.nVer >= 1
      [] OTHER -> fs.isPypy

\* The directories of the environment, from the environment's directory.
EnvDir(rel) ==
    LET has_ver == fs.hasLib /\ fs.nVer >= 1
    IN \/ rel = <<>>
       \/ rel = <<BIN_DIR>> /\ fs.hasBin
       \/ /\ fs.hasBin
          /\ \E i \in 1..Len(fs.bin) : fs.bin[i].kind = "dir" /\ rel = <<BIN_DIR, fs.bin[i].name>>
       \/ rel = base_lib_dir(<<>>, fs) /\ fs.hasLib
       \/ rel = lib_dir(<<>>, fs) /\ has_ver
       \/ rel = second_lib_dir(<<>>, fs) /\ fs.hasLib /\ fs.nVer >= 2
       \/ rel = <<"lib_pypy">> /\ fs.isPypy
       \/ rel = site_packages(<<>>, fs) /\ fs.hasSite /\ (fs.isPypy \/ has_ver)
       \/ rel = <<"local">> /\ fs.local
       \/ \E j \in 1..Len(fs.pycs) :
             /\ PycHeld(j)
             /\ IsPrefix(rel, PycRel(j)) /\ rel # PycRel(j)
             /\ Len(rel) > Len(PycRel(j)) - Len(fs.pycs[j].rel)

\* The regular files of the environment.
EnvFile(rel) ==
    \/ /\ fs.hasBin
       /\ \E i \in 1..Len(fs.bin) : fs.bin[i].kind = "file" /\ rel = <<BIN_DIR, fs.bin[i].name>>
    \/ /\ EnvDir(site_packages(<<>>, fs))
       /\ \E j \in 1..Len(fs.pths) : rel = site_packages(<<>>, fs) \o <<fs.pths[j].name>>
    \/ \E j \in 1..Len(fs.pycs) : PycHeld(j) /\ ~fs.pycs[j].link /\ rel = PycRel(j)
    \/ rel = <<"pyvenv.cfg">> /\ fs.cfg.exists

\* The symbolic links of the disk and where they point: the link to the
\* environment, the linked cache files, the dangling links of the binary
\* directory.
LinkedPycs(q) ==
    {j \in 1..Len(fs.pycs) : PycHeld(j) /\ fs.pycs[j].link /\ q = EnvPath \o PycRel(j)}

IsLink(q) ==
    \/ q = LinkPath
    \/ LinkedPycs(q) # {}
    \/ /\ fs.hasBin
       /\ \E i \in 1..Len(fs.bin) :
             fs.bin[i].kind = "dangling" /\ q = EnvPath \o <<BIN_DIR, fs.bin[i].name>>

LinkTarget(q) ==
    IF q = LinkPath THEN EnvPath
    ELSE IF LinkedPycs(q) # {} THEN Append(SharedPath, q[Len(q)])
    ELSE NowherePath

\* What the disk holds besides links: the root, the working directory and
\* those above it, sys.executable, the shared cache files, and the
\* environment.
IsRealDir(q) ==
    \/ IsPrefix(q, getcwd)
    \/ IsPrefix(q, SysExecutable) /\ q # SysExecutable
    \/ q = SharedPath
    \/ IsPrefix(EnvPath, q) /\ EnvDir(SubSeq(q, Len(EnvPath) + 1, Len(q)))

IsRealFile(q) ==
    \/ q = SysExecutable
    \/ \E j \in 1..Len(fs.pycs) :
          PycHeld(j) /\ fs.pycs[j].link /\ q = Append(SharedPath, PycRel(j)[Len(PycRel(j))])
    \/ IsPrefix(EnvPath, q) /\ EnvFile(SubSeq(q, Len(EnvPath) + 1, Len(q)))

\* The walk of an absolute path from the directory cur, component by
\* component: the path reached with the links followed, and whether every
\* step was into something the disk holds.
RECURSIVE realpath_from(_, _, _)
realpath_from(cur, rest, ok) ==
    IF rest = <<>> THEN [ok |-> ok /\ (IsRealDir(cur) \/ IsRealFile(cur)), p |-> cur]
    ELSE LET in_dir == ok /\ IsRealDir(cur)
             nxt == Append(cur, rest[1])
         IN IF rest[1] \in {"", "."} THEN realpath_from(cur, Tail(rest), in_dir)
            ELSE IF rest[1] = ".."
            THEN realpath_from(IF cur = <<>> THEN cur ELSE SubSeq(cur, 1, Len(cur) - 1),
                               Tail(rest), in_dir)
            ELSE IF IsLink(nxt) THEN realpath_from(LinkTarget(nxt), Tail(rest), in_dir)
            ELSE realpath_from(nxt, Tail(rest), in_dir)

\* Path(path).resolve()
resolve(p) == realpath_from(<<>>, p, TRUE).p

\* os.path.exists
Exists(p) == realpath_from(<<>>, p, TRUE).ok

\* os.path.isdir
IsDir(p) == Exists(p) /\ IsRealDir(resolve(p))

\* _get_realpath: str(Path(path).resolve()) of a path that exists, else the
\* path as given.
get_realpath(p) == IF Exists(p) THEN resolve(p) ELSE p

\* ------------------------------------------------------------ the checks

Check(failed, kind, sub) == [failed |-> failed, kind |-> kind, sub |-> sub]

\* The order of checks the specification lists: the versioned library
\* directory before the activation file.
layout_checks_listed(path, f) ==
    << Check(~f.hasBin, "directory", join(path, <<BIN_DIR>>)),
       Check(~f.hasLib, "directory", base_lib_dir(path, f)),
       Check(f.nVer # 1, "directory",
             base_lib_dir(path, f) \o <<(IF f.isPypy THEN "#.#" ELSE "python#.#")>>),
       Check(\A i \in Named(f, "activate") : ~isfile(f.bin[i]), "file",
             join(path, <<BIN_DIR, "activate">>)),
       Check(~f.hasSite, "directory", site_packages(path, f)) >>

\* The checks of _get_original_state, in the order the code makes them.
layout_checks(path, f) ==
    << Check(~f.hasBin, "directory", join(path, <<BIN_DIR>>)),
       Check(~f.hasLib, "directory", base_lib_dir(path, f)),
       Check(\A i \in Named(f, "activate") : ~isfile(f.bin[i]), "file",
             join(path, <<BIN_DIR, "activate">>)),
       Check(f.nVer # 1, "directory",
             base_lib_dir(path, f) \o <<(IF f.isPypy THEN "#.#" ELSE "python#.#")>>),
       Check(~f.hasSite, "directory", site_packages(path, f)) >>

\* _get_realpath of the text get_orig_path returns: the resolved path when
\* the text names something on disk, else the text as it is.
RealText(text) ==
    IF text # <<>> /\ Exists(RawPath(text)) THEN <<PathTok(resolve(RawPath(text)))>>
    ELSE text

\* _get_original_state: the first failing check, else the error of
\* get_orig_path, else the recorded original path.
get_original_state(path, f) ==
    LET checks == layout_checks(path, f)
        failing == {i \in 1..Len(checks) : checks[i].failed}
        act == f.bin[Least(Named(f, "activate"))].lines
        orig == get_orig_path(act)
    IN IF failing # {}
       THEN [res |-> "NotAVirtualenvError", check |-> checks[Least(failing)], orig_path |-> <<>>,
             lib_dirs |-> <<>>]
       ELSE IF ~orig.found
       THEN [res |-> "AssertionError", check |-> Check(FALSE, "", <<>>), orig_path |-> <<>>,
             lib_dirs |-> <<>>]
       ELSE [res |-> "ok", check |-> Check(FALSE, "", <<>>), orig_path |-> RealText(orig.text),
             lib_dirs |-> lib_dirs(path, f)]

\* ------------------------------------------------------------ environments

\* The most entries of the library base directory that match the version
\* pattern.
MaxVerDirs == 2

\* How many runs of main a behaviour makes.
MaxRuns == 2

OldPaths == {<<"a">>, <<"a", "b">>}

File(name, lines) == [name |-> name, kind |-> "file", lines |-> lines]
Odd(name, kind) == [name |-> name, kind |-> kind, lines |-> <<>>]

\* bin/activate as virtualenv writes it, the path quoted by q.
Activate(q, old) ==
    File("activate", << <<VENV, EQ, q, PathTok(old), q, NL>>, <<Lit("export"), SP, VENV, NL>> >>)

\* bin/activate of the tests' fake_venv: no quotes, no newline.
ActivateBare(old) == File("activate", << <<VENV, EQ, PathTok(old)>> >>)

ActivateCsh(old) ==
    File("activate.csh", << <<Lit("setenv"), SP, VENV, SP, DQ, PathTok(old), DQ, NL>> >>)

ActivateCshBare(old) ==
    File("activate.csh", << <<Lit("setenv"), SP, VENV, SP, PathTok(old)>> >>)

Python(old) == PathTok(old \o <<"bin", "python">>)

\* A second entry of the binary directory.
BinVariants(old) ==
    { File("pip", << <<BANG, Python(old), NL>>, <<Lit("import"), SP, Lit("pip"), NL>> >>),
      File("wheel", << <<BANG, SP, Python(old), SP, SP, Lit("-E"), NL>> >>),
      File("tox", << <<BANG, PathTok(old \o <<".tox", "python">>), NL>> >>),
      File("sys", << <<BANG, PathTok(<<"usr", "bin", "python">>), NL>> >>),
      File("wrap", << <<BANG, PathTok(<<"bin", "sh">>), NL>>,
                      <<Lit("#"), SP, BANG, Python(old), NL>> >>),
      File("rel", << <<BANG, Lit("python"), NL>> >>),
      File("dot", << <<BANG, PathTok(old \o <<".", "bin", "python">>), NL>> >>),
      File("glued", << <<BANG, Python(old), EQ, Lit("x"), NL>> >>),
      File("not-an-exe", << <<BANG, NL>>, <<Lit("ohai")>> >>),
      File("data", << <<Lit("ohai"), NL>> >>),
      File("activate.fish", << <<BANG, NL>>, <<Lit("ohai")>> >>),
      Odd("im_a_directory", "dir"),
      Odd("bad_symlink", "dangling"),
      Odd("activate.fish", "dir"),
      Odd("activate.csh", "dangling") }

BinDirs(old) ==
    {<<x, Activate(DQ, old)>> : x \in BinVariants(old)}
        \cup { <<Activate(DQ, old), ActivateCsh(old)>>,
               <<ActivateCsh(old), Activate(SQ, old)>>,
               <<Activate(SQ, old), ActivateCshBare(old)>>,
               <<ActivateBare(old)>>,
               <<File("activate", << <<VENV, EQ, DQ, Lit("x"), DQ, NL>> >>)>> }

Code(fn, body, consts) == [fn |-> fn, body |-> body, consts |-> consts]

Pyc(lib, rel, link, ok, old) ==
    [lib |-> lib, rel |-> rel, link |-> link, ok |-> ok, magic |-> "magic",
     code |-> Code(old \o <<"src">> \o rel, "module",
                   <<Code(old \o <<"src">> \o rel, "def", <<>>)>>)]

\* A cache file whose code objects, from the top one inwards, carry the
\* given source paths.
PycNested(rel, fns) ==
    [lib |-> 1, rel |-> rel, link |-> FALSE, ok |-> TRUE, magic |-> "magic",
     code |-> Code(fns[1], "module", <<Code(fns[2], "def", <<Code(fns[3], "def", <<>>)>>)>>)]

PycLists(old) ==
    { <<Pyc(1, <<"m.pyc">>, FALSE, TRUE, old)>>,
      <<PycNested(<<"m.pyc">>, <<old \o <<"m.pyc">>, old \o <<"m.pyc">>, old \o <<"m.pyc">>>>)>>,
      <<PycNested(<<"m.pyc">>, <<<<"a", "m.pyc">>, <<"x", "m.pyc">>, <<"x", "m.pyc">>>>)>>,
      <<PycNested(<<"m.pyc">>, <<<<"x", "m.pyc">>, <<"a", "m.pyc">>, <<"x", "m.pyc">>>>)>>,
      <<Pyc(0, <<"b.pyc">>, FALSE, TRUE, old), Pyc(1, <<"os.pyc">>, TRUE, TRUE, old)>>,
      <<Pyc(1, <<"bad.pyc">>, FALSE, FALSE, old)>>,
      <<Pyc(1, <<"bad.pyc">>, FALSE, FALSE, old), Pyc(0, <<"b.pyc">>, FALSE, TRUE, old)>>,
      << Pyc(1, <<"pkg", "bad.pyc">>, FALSE, FALSE, old),
         Pyc(1, <<"z.pyc">>, FALSE, TRUE, old),
         Pyc(1, <<"pkg", "sub", "s.pyc">>, FALSE, TRUE, old),
         Pyc(1, <<"pkg", "m.pyc">>, FALSE, TRUE, old) >> }

PthFile(old) ==
    [name |-> "easy-install.pth",
     lines |-> << [k |-> "abs", p |-> old \o <<"src">>],
                  [k |-> "import", p |-> <<>>],
                  [k |-> "rel", p |-> <<"x">>] >>]

CfgLine(key, neq, val) == [key |-> key, neq |-> neq, val |-> val]

Cfg(lines) == [exists |-> TRUE, lines |-> lines]

CfgHome == Cfg(<< CfgLine("home", 1, <<"usr", "bin">>), CfgLine("version", 1, <<>>) >>)

CfgVariants ==
    { [exists |-> FALSE, lines |-> <<>>],
      Cfg(<< CfgLine("version", 1, <<>>) >>),
      Cfg(<< CfgLine("", 0, <<>>), CfgLine("home", 1, <<"usr", "bin">>) >>) }

\* A well-formed environment with one activation script and nothing else.
Base(old) ==
    [hasBin |-> TRUE, hasLib |-> TRUE, nVer |-> 1, hasSite |-> TRUE, isPypy |-> FALSE,
     bin |-> <<Activate(DQ, old)>>, pycs |-> <<>>, pths |-> <<>>, cfg |-> CfgHome,
     local |-> FALSE]

\* An environment with a file of every kind, the cache files given.
Full(old, pycs) ==
    [Base(old) EXCEPT
        !.bin = << File("pip", << <<BANG, Python(old), NL>> >>), Activate(DQ, old),
                   ActivateCsh(old) >>,
        !.pycs = pycs, !.pths = <<PthFile(old)>>, !.local = TRUE]

ContentEnvs ==
    UNION { {[Base(old) EXCEPT !.bin = b] : b \in BinDirs(old)}
              \cup {[Base(old) EXCEPT !.pycs = l] : l \in PycLists(old)}
              \cup {[Base(old) EXCEPT !.cfg = c] : c \in CfgVariants}
              \cup { [Base(old) EXCEPT !.pths = <<PthFile(old)>>],
                     [Base(old) EXCEPT !.isPypy = TRUE, !.pths = <<PthFile(old)>>],
                     [Base(old) EXCEPT !.isPypy = TRUE,
                                       !.pycs = << Pyc(1, <<"m.pyc">>, FALSE, TRUE, old),
                                                   Pyc(2, <<"m.pyc">>, FALSE, TRUE, old),
                                                   Pyc(2, <<"bad.pyc">>, FALSE, FALSE, old) >>],
                     Full(old, <<Pyc(1, <<"m.pyc">>, FALSE, TRUE, old)>>),
                     Full(old, << Pyc(1, <<"m.pyc">>, FALSE, TRUE, old),
                                  Pyc(1, <<"bad.pyc">>, FALSE, FALSE, old),
                                  Pyc(1, <<"z.pyc">>, FALSE, TRUE, old) >>) }
            : old \in OldPaths }

\* Directories with any of the required entries missing.
LayoutEnvs ==
    { [Base(<<"a">>) EXCEPT !.hasBin = hb, !.hasLib = hl, !.nVer = nv, !.hasSite = hs,
                             !.isPypy = py,
                             !.bin = IF hb /\ ha THEN <<Activate(DQ, <<"a">>)>>
                                     ELSE IF hb THEN <<Odd("activate", "dir")>> ELSE <<>>]
      : hb \in BOOLEAN, hl \in BOOLEAN, nv \in 0..MaxVerDirs, hs \in BOOLEAN, py \in BOOLEAN,
        ha \in BOOLEAN }

\* --update-path: an absolute path, or a relative one (the empty word is the
\* relative path of no component); the word auto is Request(FALSE, <<"auto">>).
Request(abs, c) == [given |-> TRUE, abs |-> abs, c |-> c]

\* A command line with no --update-path.
NoRequest == [given |-> FALSE, abs |-> FALSE, c |-> <<>>]

Auto == <<"auto">>

\* WORKON_HOME not set; when set it is an absolute path.
NoWorkon == [set |-> FALSE, c |-> <<>>]

\* Where the commands are given when it does not matter: a directory
\* outside every environment.
WorkDir == <<"work">>

\* A command line with WORKON_HOME not set, given in WorkDir.
Input(req, verbose, base) ==
    [req |-> req, verbose |-> verbose, base |-> base, workon |-> NoWorkon, cwd |-> WorkDir]

NoBase == [given |-> FALSE, abs |-> TRUE, c |-> <<>>]

\* The command lines: --update-path, --verbose and --base-python-dir, with
\* WORKON_HOME and the working directory of the process.
Inputs ==
    {Input(Request(TRUE, c), v, NoBase) : c \in {<<"a">>, <<"a", "b">>, LinkPath}, v \in BOOLEAN}
        \cup { Input(Request(FALSE, <<"notabs">>), FALSE, NoBase),
               Input(Request(TRUE, LinkPath), FALSE, [given |-> TRUE, abs |-> TRUE, c |-> <<"opt", "py">>]),
               Input(Request(TRUE, LinkPath), FALSE, [given |-> TRUE, abs |-> FALSE, c |-> <<"py">>]),
               Input(NoRequest, FALSE, NoBase),
               Input(Request(FALSE, Auto), FALSE, NoBase),
               Input(Request(TRUE, <<"a", "b">>), FALSE, [given |-> TRUE, abs |-> FALSE, c |-> Auto]),
               Input(Request(TRUE, LinkPath \o <<"bin">>), FALSE, NoBase),
               [Input(Request(TRUE, <<"a">>), TRUE, NoBase) EXCEPT !.cwd = <<"a", "bin">>],
               [Input(Request(FALSE, <<"notabs">>), FALSE, NoBase)
                    EXCEPT !.workon = [set |-> TRUE, c |-> <<>>]],
               [Input(Request(FALSE, <<"env">>), FALSE, NoBase)
                    EXCEPT !.workon = [set |-> TRUE, c |-> <<>>]],
               [Input(Request(TRUE, <<"a">>), FALSE, NoBase)
                    EXCEPT !.workon = [set |-> TRUE, c |-> <<"home">>]],
               Input(Request(TRUE, <<"work", "..", "env", ".">>), FALSE, NoBase),
               [Input(Request(FALSE, <<>>), FALSE, NoBase)
                    EXCEPT !.workon = [set |-> TRUE, c |-> <<"home">>]],
               [Input(Request(FALSE, <<"..", "env">>), TRUE, NoBase)
                    EXCEPT !.workon = [set |-> TRUE, c |-> WorkDir]] }

Scenarios ==
    {[fs |-> e, inp |-> i] : e \in ContentEnvs, i \in Inputs}
        \cup {[fs |-> e, inp |-> Input(Request(TRUE, LinkPath), FALSE, NoBase)] : e \in LayoutEnvs}

\* ------------------------------------------------------------------ state

vars == <<fs, inp, act0, fs_start, st, phase, idx, run, out, ret, writes, prev, restored, runs>>

Msg(t, p, q, r) == [t |-> t, p |-> p, q |-> q, r |-> r]

\* debug(msg)
debug(verbose, m) == IF verbose THEN <<m>> ELSE <<>>

Wrote(k, f) == [k |-> k, f |-> f]

NoRun ==
    [force |-> FALSE, update_path |-> <<>>, base_python_dir |-> <<>>, orig_path |-> <<>>,
     path |-> <<>>]

NoPrev ==
    [st |-> "Idle", phase |-> "", idx |-> 0, force |-> FALSE, out |-> <<>>, restored |-> FALSE,
     bin |-> <<>>, writes |-> <<>>]

Init ==
    \E sc \in Scenarios :
        /\ fs = sc.fs
        /\ inp = sc.inp
        /\ act0 = sc.fs.bin
        /\ fs_start = sc.fs
        /\ st = "Idle"
        /\ phase = ""
        /\ idx = 0
        /\ run = NoRun
        /\ out = <<>>
        /\ ret = ""
        /\ writes = <<>>
        /\ prev = NoPrev
        /\ restored = FALSE
        /\ runs = 0

\* update_paths with the activation scripts rewritten right after the
\* other scripts.
Phases_activation_early ==
    <<"scripts", "activation", "pycs", "pth", "cfg", "local", "finish">>

\* The calls of update_paths, in order, and main's last print.
Phases == <<"scripts", "pycs", "pth", "cfg", "local", "activation", "finish">>

\* The cache files a directory holds itself: those listed under library
\* directory d whose path below it is prefix and a file name, from entry i
\* on, in the order of the listing.
RECURSIVE pycs_in(_, _, _, _)
pycs_in(f, d, prefix, i) ==
    IF i > Len(f.pycs) THEN <<>>
    ELSE (IF /\ f.pycs[i].lib = d
             /\ Len(f.pycs[i].rel) = Len(prefix) + 1
             /\ IsPrefix(prefix, f.pycs[i].rel)
          THEN <<i>> ELSE <<>>) \o pycs_in(f, d, prefix, i + 1)

\* The subdirectories of that directory that hold cache files, from entry i
\* on, each once, in the order of the listing.
RECURSIVE dirnames_in(_, _, _, _, _)
dirnames_in(f, d, prefix, i, seen) ==
    IF i > Len(f.pycs) THEN <<>>
    ELSE LET rel == f.pycs[i].rel
             below == /\ f.pycs[i].lib = d
                      /\ Len(rel) > Len(prefix) + 1
                      /\ IsPrefix(prefix, rel)
                      /\ rel[Len(prefix) + 1] \notin seen
         IN IF below
            THEN <<rel[Len(prefix) + 1]>>
                     \o dirnames_in(f, d, prefix, i + 1, seen \cup {rel[Len(prefix) + 1]})
            ELSE dirnames_in(f, d, prefix, i + 1, seen)

\* os.walk(lib_dir), top down: the cache files of a directory, then the walk
\* of each of its subdirectories.
RECURSIVE os_walk(_, _, _)
RECURSIVE os_walk_each(_, _, _, _)
os_walk_each(f, d, prefix, names) ==
    IF names = <<>> THEN <<>>
    ELSE os_walk(f, d, Append(prefix, names[1])) \o os_walk_each(f, d, prefix, Tail(names))

os_walk(f, d, prefix) ==
    pycs_in(f, d, prefix, 1) \o os_walk_each(f, d, prefix, dirnames_in(f, d, prefix, 1, {}))

\* The order update_paths comes to the cache files in: the walk of the binary
\* directory, then the walk of each of venv.lib_dirs.
pyc_order(f) ==
    os_walk(f, 0, <<>>) \o os_walk(f, 1, <<>>) \o (IF f.isPypy THEN os_walk(f, 2, <<>>) ELSE <<>>)

PhaseLen(ph) ==
    CASE ph \in {"scripts", "activation"} -> Len(fs.bin)
      [] ph = "pycs" -> Len(pyc_order(fs))
      [] ph = "pth" -> Len(fs.pths)
      [] OTHER -> 1

PhaseNo(ph) == CHOOSE i \in 1..Len(Phases) : Phases[i] = ph

\* The position after entry i of phase ph: the next entry, or the first entry
\* of the next call that has one.
After(ph, i) ==
    IF i < PhaseLen(ph) THEN <<ph, i + 1>>
    ELSE LET later == {j \in (PhaseNo(ph) + 1)..Len(Phases) : PhaseLen(Phases[j]) > 0}
         IN <<Phases[Least(later)], 1>>

\* The original path as os.path.relpath takes it: the recorded text, read
\* from the working directory when it is relative.
OrigPath == ArgPath(run.orig_path)

bin_dir == EnvPath \o <<BIN_DIR>>

\* The directories update_paths scans for cache files, 0 the binary
\* directory, then venv.lib_dirs.
LibDirPath(lib) == (<<bin_dir>> \o lib_dirs(EnvPath, fs))[lib + 1]

\* The positional argument of the command line: the environment's directory.
ArgsPath == EnvPath

\* What the disk holds at a directory: the environment at its own path,
\* nothing of an environment anywhere else.
DiskAt(path) ==
    IF path = EnvPath THEN fs
    ELSE LET pypy == IsDir(join(path, <<"lib_pypy">>))
         IN [hasBin |-> IsDir(join(path, <<BIN_DIR>>)),
             hasLib |-> IsDir(join(path, <<(IF pypy THEN "lib-python" ELSE "lib")>>)),
             nVer |-> 0, hasSite |-> FALSE, isPypy |-> pypy,
             bin |-> <<>>, pycs |-> <<>>, pths |-> <<>>,
             cfg |-> [exists |-> FALSE, lines |-> <<>>], local |-> FALSE]

\* NotAVirtualenvError.__str__ with the arguments misplaced.
NotAVirtualenvError_swapped(path, kind, sub) ==
    Msg("is not a virtualenv: not a", path, sub, <<kind>>)

\* NotAVirtualenvError.__str__: '{} is not a virtualenv: not a {}: {}'
NotAVirtualenvError_str(path, kind, sub) ==
    Msg("is not a virtualenv: not a", path, <<kind>>, sub)

\* The test of line 469 made only under --force.
up_to_date_forced(force, orig_path, update_path) ==
    force /\ IsAbsArg(orig_path) /\ TextPath(orig_path).c = update_path

\* Line 469: not args.force and venv.orig_path == update_path, the two
\* compared as texts.
up_to_date(force, orig_path, update_path) ==
    ~force /\ IsAbsArg(orig_path) /\ TextPath(orig_path).c = update_path

\* main, as far as the call of update_paths.
main_started(force) ==
    LET auto == ~inp.req.abs /\ inp.req.c = Auto
        in_home == ~auto /\ inp.workon.set
        given_path == IF auto THEN normpath(ArgsPath)
                      ELSE IF in_home /\ ~inp.req.abs THEN join(inp.workon.c, inp.req.c)
                      ELSE inp.req.c
        isabs == auto \/ in_home \/ inp.req.abs
        update_path == get_realpath(given_path)
        base_auto == ~inp.base.given \/ (~inp.base.abs /\ inp.base.c = Auto)
        base == IF base_auto THEN SysExecutable ELSE inp.base.c
        path == IF in_home THEN update_path ELSE get_realpath(ArgsPath)
        venv == get_original_state(path, DiskAt(path))
        go(s, o, r) == /\ st' = s /\ out' = o /\ ret' = r
                       /\ phase' = "" /\ idx' = 0
                       /\ run' = [NoRun EXCEPT !.force = force, !.path = path]
    IN IF ~inp.req.given
       THEN go("Usage", <<>>, "2")
       ELSE IF ~isabs
       THEN go("Usage", <<Msg("--update-path must be absolute", given_path, <<>>, <<>>)>>, "1")
       ELSE IF ~base_auto /\ ~inp.base.abs
       THEN go("Usage", <<Msg("--base-python-dir must be absolute", inp.base.c, <<>>, <<>>)>>, "1")
       ELSE IF venv.res = "NotAVirtualenvError"
       THEN go("Failed", <<NotAVirtualenvError_str(path, venv.check.kind, venv.check.sub)>>, "1")
       ELSE IF venv.res = "AssertionError"
       THEN go("Crashed", <<>>, "raise")
       ELSE IF up_to_date(force, venv.orig_path, update_path)
       THEN /\ st' = "UpToDate"
            /\ out' = <<Msg("Already up-to-date", path, update_path, <<>>)>>
            /\ ret' = "0"
            /\ phase' = "" /\ idx' = 0
            /\ run' = [force |-> force, update_path |-> update_path, path |-> path,
                        base_python_dir |-> base, orig_path |-> venv.orig_path]
       ELSE /\ st' = "Rewriting"
            /\ out' = <<>>
            /\ ret' = ""
            /\ phase' = "scripts" /\ idx' = 1
            /\ run' = [force |-> force, update_path |-> update_path, path |-> path,
                        base_python_dir |-> base, orig_path |-> venv.orig_path]

\* A run of main begins.
Start ==
    /\ st # "Rewriting"
    /\ runs < MaxRuns
    /\ \E force \in BOOLEAN : main_started(force)
    /\ prev' = [st |-> st, phase |-> phase, idx |-> idx, force |-> run.force,
                out |-> out, restored |-> restored, bin |-> fs_start.bin,
                writes |-> writes]
    /\ fs_start' = fs
    /\ restored' = FALSE
    /\ writes' = <<>>
    /\ runs' = runs + 1
    /\ UNCHANGED <<fs, inp, act0>>

\* The run goes on to the next entry.
Step(o, w) ==
    /\ out' = out \o o
    /\ writes' = writes \o w
    /\ phase' = After(phase, idx)[1]
    /\ idx' = After(phase, idx)[2]
    /\ UNCHANGED <<st, ret>>

\* The run ends with an exception.
Raise(o) ==
    /\ out' = out \o o
    /\ st' = "Crashed"
    /\ ret' = "raise"
    /\ UNCHANGED <<fs, writes, phase, idx>>

\* The body of the loop of update_scripts for one entry of the directory.
update_scripts_entry(activation) ==
    LET e == fs.bin[idx]
        path == bin_dir \o <<e.name>>
    IN IF e.name \in ACTIVATION_SCRIPTS /\ activation
       THEN IF ~isfile(e) THEN Raise(<<>>)
            ELSE LET r == update_activation_script(e.lines, run.update_path)
                 IN /\ fs' = [fs EXCEPT !.bin[idx].lines = r.lines]
                    /\ IF r.written
                       THEN Step(debug(inp.verbose, Msg("A", path, <<>>, <<>>)),
                                 <<Wrote("A", path)>>)
                       ELSE Step(<<>>, <<>>)
       ELSE IF isfile(e)
       THEN LET r == update_script(e.lines, OrigPath, run.update_path)
            IN /\ fs' = [fs EXCEPT !.bin[idx].lines = r.lines]
               /\ IF r.written
                  THEN Step(debug(inp.verbose, Msg("S", path, <<>>, <<>>)),
                            <<Wrote("S", path)>>)
                  ELSE Step(<<>>, <<>>)
       ELSE fs' = fs /\ Step(<<>>, <<>>)

\* update_scripts(venv.bin_dir, venv.orig_path, new_path), entry by entry.
UpdateScripts ==
    /\ st = "Rewriting" /\ phase = "scripts"
    /\ update_scripts_entry(FALSE)
    /\ UNCHANGED <<inp, act0, fs_start, run, prev, restored, runs>>

\* update_pycs over the binary directory and the library directories, file
\* by file in the order of os.walk: the files of a directory before those of
\* its subdirectories.
UpdatePycs ==
    /\ st = "Rewriting" /\ phase = "pycs"
    /\ LET j == pyc_order(fs)[idx]
           f == fs.pycs[j]
           path == LibDirPath(f.lib) \o f.rel
       IN IF f.link THEN fs' = fs /\ Step(<<>>, <<>>)
          ELSE IF ~f.ok THEN Raise(<<Msg("Error in", path, <<>>, <<>>)>>)
          ELSE LET r == update_pyc(f, get_new_path(f, run.update_path))
               IN /\ fs' = [fs EXCEPT !.pycs[j] = r.file]
                  /\ IF r.written
                     THEN Step(debug(inp.verbose, Msg("B", path, <<>>, <<>>)),
                               <<Wrote("B", path)>>)
                     ELSE Step(<<>>, <<>>)
    /\ UNCHANGED <<inp, act0, fs_start, run, prev, restored, runs>>

\* update_pth_files, file by file.
UpdatePthFiles ==
    /\ st = "Rewriting" /\ phase = "pth"
    /\ LET f == fs.pths[idx]
           path == site_packages(EnvPath, fs) \o <<f.name>>
           r == update_pth_file(f.lines, OrigPath, fs.isPypy)
       IN /\ fs' = [fs EXCEPT !.pths[idx].lines = r.lines]
          /\ IF r.written
             THEN Step(debug(inp.verbose, Msg("P", path, <<>>, <<>>)), <<Wrote("P", path)>>)
             ELSE Step(<<>>, <<>>)
    /\ UNCHANGED <<inp, act0, fs_start, run, prev, restored, runs>>

\* update_pyvenv_cfg(venv.pyvenv_cfg_file, base_python_dir); main always
\* passes a base_python_dir.
UpdatePyvenvCfg ==
    /\ st = "Rewriting" /\ phase = "cfg"
    /\ LET path == EnvPath \o <<"pyvenv.cfg">>
           r == update_pyvenv_cfg(fs.cfg.lines, run.base_python_dir)
       IN IF ~fs.cfg.exists \/ r.raised THEN Raise(<<>>)
          ELSE /\ fs' = [fs EXCEPT !.cfg.lines = r.lines]
               /\ Step(<<>>, IF r.written THEN <<Wrote("C", path)>> ELSE <<>>)
    /\ UNCHANGED <<inp, act0, fs_start, run, prev, restored, runs>>

\* remove_local(venv.path)
RemoveLocal ==
    /\ st = "Rewriting" /\ phase = "local"
    /\ LET path == EnvPath \o <<"local">>
       IN /\ fs' = [fs EXCEPT !.local = FALSE]
          /\ IF fs.local
             THEN Step(debug(inp.verbose, Msg("D", path, <<>>, <<>>)), <<Wrote("D", path)>>)
             ELSE Step(<<>>, <<>>)
    /\ UNCHANGED <<inp, act0, fs_start, run, prev, restored, runs>>

\* update_scripts(venv.bin_dir, venv.orig_path, new_path, activation=True)
UpdateActivation ==
    /\ st = "Rewriting" /\ phase = "activation"
    /\ update_scripts_entry(TRUE)
    /\ UNCHANGED <<inp, act0, fs_start, run, prev, restored, runs>>

\* main prints what it did and returns; the original path is printed as the
\* text recorded.
Finish ==
    /\ st = "Rewriting" /\ phase = "finish"
    /\ st' = "Done"
    /\ ret' = "0"
    /\ out' = out \o <<Msg("Updated", run.path, run.orig_path, run.update_path)>>
    /\ UNCHANGED <<fs, inp, act0, fs_start, phase, idx, run, writes, prev, restored, runs>>

\* The run is stopped between two files.
Interrupt ==
    /\ st = "Rewriting"
    /\ st' = "Interrupted"
    /\ phase' = "" /\ idx' = 0
    /\ UNCHANGED <<fs, inp, act0, fs_start, run, out, ret, writes, prev, restored, runs>>

\* The run is stopped inside the handling of an entry, at one of the points
\* the code passes: "printed", after the line of a script, activation script,
\* cache file or the local directory was printed and before the file is
\* opened or the directory removed, or after "Error in" was printed for a
\* cache file marshal cannot load and before the error leaves update_pyc;
\* "opened", after the file was opened for
\* writing, which empties it, and before anything was written to it (the
\* empty cache file is one marshal cannot load); "written", after a manifest
\* was written and before its line is printed.
InterruptInWrite ==
    /\ st = "Rewriting"
    /\ \E at \in {"printed", "opened", "written"} :
        \/ /\ phase \in {"scripts", "activation"}
           /\ at \in {"printed", "opened"}
           /\ LET e == fs.bin[idx]
                  path == bin_dir \o <<e.name>>
                  as_activation == e.name \in ACTIVATION_SCRIPTS /\ phase = "activation"
                  r == IF as_activation THEN update_activation_script(e.lines, run.update_path)
                       ELSE update_script(e.lines, OrigPath, run.update_path)
                  k == IF as_activation THEN "A" ELSE "S"
              IN /\ isfile(e)
                 /\ r.written
                 /\ out' = out \o debug(inp.verbose, Msg(k, path, <<>>, <<>>))
                 /\ IF at = "opened"
                    THEN /\ fs' = [fs EXCEPT !.bin[idx].lines = <<>>]
                         /\ writes' = Append(writes, Wrote(k, path))
                    ELSE UNCHANGED <<fs, writes>>
        \/ /\ phase = "pycs"
           /\ at \in {"printed", "opened"}
           /\ LET j == pyc_order(fs)[idx]
                  f == fs.pycs[j]
                  path == LibDirPath(f.lib) \o f.rel
              IN /\ ~f.link
                 /\ IF ~f.ok
                    THEN /\ at = "printed"
                         /\ out' = Append(out, Msg("Error in", path, <<>>, <<>>))
                         /\ UNCHANGED <<fs, writes>>
                    ELSE /\ update_pyc(f, get_new_path(f, run.update_path)).written
                         /\ out' = out \o debug(inp.verbose, Msg("B", path, <<>>, <<>>))
                         /\ IF at = "opened"
                            THEN /\ fs' = [fs EXCEPT !.pycs[j].ok = FALSE]
                                 /\ writes' = Append(writes, Wrote("B", path))
                            ELSE UNCHANGED <<fs, writes>>
        \/ /\ phase = "pth"
           /\ at \in {"opened", "written"}
           /\ LET f == fs.pths[idx]
                  path == site_packages(EnvPath, fs) \o <<f.name>>
                  r == update_pth_file(f.lines, OrigPath, fs.isPypy)
              IN /\ r.written
                 /\ fs' = [fs EXCEPT !.pths[idx].lines = IF at = "opened" THEN <<>> ELSE r.lines]
                 /\ out' = out
                 /\ writes' = Append(writes, Wrote("P", path))
        \/ /\ phase = "cfg"
           /\ at = "opened"
           /\ fs.cfg.exists
           /\ LET r == update_pyvenv_cfg(fs.cfg.lines, run.base_python_dir)
              IN /\ ~r.raised /\ r.written
                 /\ fs' = [fs EXCEPT !.cfg.lines = <<>>]
                 /\ out' = out
                 /\ writes' = Append(writes, Wrote("C", EnvPath \o <<"pyvenv.cfg">>))
        \/ /\ phase = "local"
           /\ at = "printed"
           /\ fs.local
           /\ out' = out \o debug(inp.verbose, Msg("D", EnvPath \o <<"local">>, <<>>, <<>>))
           /\ UNCHANGED <<fs, writes>>
    /\ st' = "Interrupted"
    /\ phase' = "" /\ idx' = 0
    /\ UNCHANGED <<inp, act0, fs_start, run, ret, prev, restored, runs>>

\* bin/activate is written back as it was first found (the tests do, to have
\* a finished run made again).
RestoreActivate ==
    /\ st = "Done"
    /\ \E i \in Named(fs, "activate") :
          /\ fs.bin[i] # act0[i]
          /\ fs' = [fs EXCEPT !.bin[i] = act0[i]]
    /\ restored' = TRUE
    /\ UNCHANGED <<inp, act0, fs_start, st, phase, idx, run, out, ret, writes, prev, runs>>

Next ==
    \/ Start
    \/ UpdateScripts
    \/ UpdatePycs
    \/ UpdatePthFiles
    \/ UpdatePyvenvCfg
    \/ RemoveLocal
    \/ UpdateActivation
    \/ Finish
    \/ Interrupt
    \/ InterruptInWrite
    \/ RestoreActivate

Spec == Init /\ [][Next]_vars

\* ------------------------------------------- _update_pth_file on its own

\* The longest manifest file.
MaxPthLines == 3

\* The lines of a manifest: a path below the original path, the original
\* path itself, a path outside it, an import line, a relative path.
PthLines(orig_path) ==
    { [k |-> "abs", p |-> orig_path \o <<"src">>],
      [k |-> "abs", p |-> orig_path],
      [k |-> "abs", p |-> <<"usr", "lib">>],
      [k |-> "import", p |-> <<>>],
      [k |-> "rel", p |-> <<"x">>] }

PthFiles(orig_path) ==
    UNION {[1..n -> PthLines(orig_path)] : n \in 0..MaxPthLines}

\* A call _update_pth_file(pth_filename, orig_path, is_pypy) about to be
\* made, with the value IS_WINDOWS has.
InitPth ==
    \E orig_path \in OldPaths, is_pypy \in BOOLEAN, is_windows \in BOOLEAN :
        \E lines \in PthFiles(orig_path) :
            /\ fs = [name |-> "easy-install.pth", lines |-> lines]
            /\ inp = [orig_path |-> orig_path, is_pypy |-> is_pypy, is_windows |-> is_windows,
                      verbose |-> TRUE]
            /\ fs_start = fs
            /\ st = "Called"
            /\ act0 = <<>> /\ phase = "" /\ idx = 0 /\ run = NoRun /\ out = <<>> /\ ret = ""
            /\ writes = <<>> /\ prev = NoPrev /\ restored = FALSE /\ runs = 0

\* The call is made and returns.
CallUpdatePthFile ==
    /\ st = "Called"
    /\ LET r == update_pth_file_for(fs.lines, inp.orig_path, inp.is_pypy, inp.is_windows)
           path == <<fs.name>>
       IN /\ fs' = [fs EXCEPT !.lines = r.lines]
          /\ writes' = IF r.written THEN <<Wrote("P", path)>> ELSE <<>>
          /\ out' = IF r.written THEN debug(inp.verbose, Msg("P", path, <<>>, <<>>)) ELSE <<>>
    /\ st' = "Returned"
    /\ UNCHANGED <<inp, act0, fs_start, phase, idx, run, ret, prev, restored, runs>>

NextPth == CallUpdatePthFile

SpecPth == InitPth /\ [][NextPth]_vars

\* ----------------------------------------------------------------- claims

\* A run has reached Done, and nothing was done to the environment since.
Done == st = "Done" /\ ~restored

\* The required entries of the layout, by name, and what main reports for
\* each.
MissingEntry(name) ==
    LET d == DiskAt(run.path)
    IN CASE name = "bin" -> ~d.hasBin
         [] name = "lib" -> ~d.hasLib
         [] name = "activate" -> \A i \in Named(d, "activate") : d.bin[i].kind # "file"
         [] name = "version" -> d.nVer # 1
         [] name = "site" -> ~d.hasSite

ReportOf(name) ==
    LET d == DiskAt(run.path)
        lib == IF d.isPypy THEN "lib-python" ELSE "lib"
    IN CASE name = "bin" -> [kind |-> "directory", sub |-> join(run.path, <<"bin">>)]
         [] name = "lib" -> [kind |-> "directory", sub |-> join(run.path, <<lib>>)]
         [] name = "activate" -> [kind |-> "file", sub |-> join(run.path, <<"bin", "activate">>)]
         [] name = "version" ->
              [kind |-> "directory",
               sub |-> join(run.path, <<lib, (IF d.isPypy THEN "#.#" ELSE "python#.#")>>)]
         [] name = "site" ->
              [kind |-> "directory",
               sub |-> IF d.isPypy THEN join(run.path, <<"site-packages">>)
                       ELSE join(run.path, <<"lib", "python3.8", "site-packages">>)]

LayoutEntries == {"bin", "lib", "activate", "version", "site"}

\* The arguments pass main's checks of the command line.
UsageOk ==
    /\ inp.req.given
    /\ inp.req.abs \/ inp.req.c = Auto \/ inp.workon.set
    /\ (inp.base.given /\ ~inp.base.abs) => inp.base.c = Auto

\* C1: when a required entry of the layout is missing (the binary directory,
\* the library base directory, the activation file, the one versioned
\* library directory, the site-packages directory), main prints
\* "<path> is not a virtualenv: not a {directory|file}: <subpath>" for a
\* missing entry, returns 1, and has written or removed nothing.
C1_NotAVirtualenv ==
    (runs > 0 /\ UsageOk /\ \E n \in LayoutEntries : MissingEntry(n))
        => /\ st = "Failed"
           /\ ret = "1"
           /\ \E n \in LayoutEntries :
                 /\ MissingEntry(n)
                 /\ out = <<Msg("is not a virtualenv: not a", run.path,
                                <<ReportOf(n).kind>>, ReportOf(n).sub)>>
           /\ writes = <<>>
           /\ fs = fs_start

\* A run has failed on a missing site-packages directory.
C1_Witness ==
    /\ st = "Failed"
    /\ MissingEntry("site")
    /\ out[1].r = ReportOf("site").sub

\* C2: when the recorded original path is the requested new path and --force
\* is not given, main prints "Already up-to-date: <path> (<new path>)",
\* returns 0, and no rewriter has run: nothing is written.
C2_UpToDate ==
    (run.orig_path = <<PathTok(run.update_path)>> /\ ~run.force /\ runs > 0)
        => /\ st = "UpToDate"
           /\ ret = "0"
           /\ out = <<Msg("Already up-to-date", run.path, run.update_path, <<>>)>>
           /\ writes = <<>>
           /\ fs = fs_start

\* A first run whose new path is the recorded one has ended up to date.
C2_Witness ==
    /\ st = "UpToDate"
    /\ runs = 1
    /\ run.update_path = <<"a", "b">>

\* A word that is one absolute path and nothing else.
IsPathWord(arg) == Len(arg) = 1 /\ arg[1].k = "path"

\* The text of the first argument after the marker of a file's first line.
ShebangOf(lines) ==
    IF starts_with_marker(lines) /\ split(Tail(lines[1])) # <<>>
    THEN split(Tail(lines[1]))[1] ELSE <<>>

\* The path each assignment line of a file records.
Recorded(lines) ==
    {SubSeq(lines[i], activation_path_re(lines[i]).gs, activation_path_re(lines[i]).ge - 1)
        : i \in {j \in 1..Len(lines) : activation_path_re(lines[j]).ok}}

\* The entries of the binary directory that are activation scripts.
ActivationFiles(f) ==
    {i \in 1..Len(f.bin) : f.bin[i].name \in ACTIVATION_SCRIPTS /\ isfile(f.bin[i])}

\* The entries of the binary directory that are other files.
ScriptFiles(f) ==
    {i \in 1..Len(f.bin) : f.bin[i].name \notin ACTIVATION_SCRIPTS /\ isfile(f.bin[i])}

\* C3: for distinct old and new paths, either of which may begin with the
\* other, after a run that reaches Done every script whose interpreter was
\* old/<suffix> (the suffix a plain name, none that begins with a dot) has
\* the interpreter new/<suffix>, every activation script's assignment (of a
\* line that ends in a newline) holds new, and every cache file that is no
\* symbolic link records a source path under new.
C3_AllMoved ==
    (Done /\ OrigPath # run.update_path)
        => /\ \A i \in ScriptFiles(fs) :
                 LET was == ShebangOf(fs_start.bin[i].lines)
                 IN (/\ IsPathWord(was) /\ IsPrefix(OrigPath, was[1].s) /\ was[1].s # OrigPath
                     /\ was[1].s[Len(OrigPath) + 1] \notin DotNames)
                       => ShebangOf(fs.bin[i].lines)
                            = <<PathTok(run.update_path
                                          \o SubSeq(was[1].s, Len(OrigPath) + 1, Len(was[1].s)))>>
           /\ \A i \in ActivationFiles(fs) :
                 \A l \in 1..Len(fs.bin[i].lines) :
                     LET line == fs.bin[i].lines[l]
                     IN (line[Len(line)] = NL /\ fs_start.bin[i].lines[l][Len(line)] = NL)
                           => \A t \in Recorded(<<line>>) : t = <<PathTok(run.update_path)>>
           /\ \A j \in 1..Len(fs.pycs) :
                 ~fs.pycs[j].link => IsPrefix(run.update_path, fs.pycs[j].code.fn)

\* C4: main run twice in succession with the same new path and no --force:
\* when the first run reached Done, the second recovers the new path as the
\* original path, ends up to date, writes nothing and leaves every file as
\* the first run left it.
C4_SecondRunUpToDate ==
    (prev.st = "Done" /\ ~prev.restored /\ ~run.force)
        => /\ st = "UpToDate"
           /\ run.orig_path = <<PathTok(run.update_path)>>
           /\ writes = <<>>
           /\ fs = fs_start

\* A second run has ended up to date after a first that rewrote the
\* activation script.
C4_Witness ==
    /\ prev.st = "Done" /\ ~prev.restored /\ ~run.force
    /\ st = "UpToDate"
    /\ fs.bin # act0

\* The scripts, cache files and manifests the run before this one rewrote.
RewrittenBefore ==
    {prev.writes[i].f : i \in {j \in 1..Len(prev.writes) : prev.writes[j].k \in {"S", "B", "P"}}}

\* C5: a re-run with the same new path over scripts, cache files and
\* manifests that are already rewritten (made by putting the activation
\* script back, or by --force) writes none of them again and prints no S, B
\* or P line.
C5_RewritersIdempotent ==
    (Done /\ prev.st = "Done" /\ (prev.restored \/ run.force))
        => /\ \A i \in 1..Len(writes) :
                 ~(writes[i].k \in {"S", "B", "P"} /\ writes[i].f \in RewrittenBefore)
           /\ \A i \in 1..Len(out) :
                 ~(out[i].t \in {"S", "B", "P"} /\ out[i].p \in RewrittenBefore)

\* The cache file a crashed run stopped at.
CrashedAtPyc == st = "Crashed" /\ phase = "pycs"

\* The files the walk comes to after the bad cache file, and everything the
\* later calls of update_paths handle, are as they were at the start.
NothingLaterModified ==
    /\ \A k \in idx..Len(pyc_order(fs)) :
          fs.pycs[pyc_order(fs)[k]] = fs_start.pycs[pyc_order(fs)[k]]
    /\ fs.pths = fs_start.pths
    /\ fs.cfg = fs_start.cfg
    /\ fs.local = fs_start.local
    /\ \A i \in ActivationFiles(fs) : fs.bin[i] = fs_start.bin[i]

C7_FirstLineOnly ==
    Done
        => \A i \in ScriptFiles(fs) :
              LET was == ShebangOf(fs_start.bin[i].lines)
              IN (IsPathWord(was) /\ ~path_is_within(was[1].s, OrigPath))
                    => fs.bin[i] = fs_start.bin[i]

\* An entry the script passes are to skip: a subdirectory, a dangling link,
\* or a file that starts with the marker and names no interpreter.
Oddity(e) ==
    \/ e.kind \in {"dir", "dangling"}
    \/ /\ e.kind = "file"
       /\ starts_with_marker(e.lines)
       /\ \A i \in 1..Len(e.lines) :
             find_shebang(e.lines[i]) > 0
                => split(SubSeq(e.lines[i], find_shebang(e.lines[i]) + 1, Len(e.lines[i]))) = <<>>

\* C8: both script passes skip every such entry: no run stops at one, and
\* the entry is left untouched.
C8_OdditiesSkipped ==
    /\ (st = "Crashed" /\ phase \in {"scripts", "activation"}) => ~Oddity(fs.bin[idx])
    /\ \A i \in 1..Len(fs.bin) : Oddity(fs_start.bin[i]) => fs.bin[i] = fs_start.bin[i]

\* The first missing entry in an order of the checks.
FirstMissing(order) ==
    order[Least({i \in 1..Len(order) : MissingEntry(order[i])})]

Reported(name) ==
    out = <<Msg("is not a virtualenv: not a", run.path, <<ReportOf(name).kind>>,
                ReportOf(name).sub)>>

\* C9 as claimed: the checks are made in the order binary directory, library
\* base directory, versioned library directory, activation file,
\* site-packages, and the first that fails is the one reported.
C9_ListedOrder ==
    st = "Failed" => Reported(FirstMissing(<<"bin", "lib", "version", "activate", "site">>))

\* C9 amended: the checks are made in the order binary directory, library
\* base directory, activation file, versioned library directory,
\* site-packages, and the first that fails is the one reported; a missing
\* binary directory is always the one reported.
C9_CodeOrder ==
    st = "Failed"
        => /\ Reported(FirstMissing(<<"bin", "lib", "activate", "version", "site">>))
           /\ MissingEntry("bin") => Reported("bin")

\* A run has reported the missing activation file of a directory that has
\* no versioned library directory either.
C9_Witness ==
    /\ st = "Failed"
    /\ Reported("activate")
    /\ MissingEntry("version")

\* The moved environment: every activation script, every cache file and
\* every manifest refers to the new path.
Moved ==
    /\ \A i \in ActivationFiles(fs) :
          \A t \in Recorded(fs.bin[i].lines) : t = <<PathTok(run.update_path)>>
    /\ \A j \in 1..Len(fs.pycs) :
          ~fs.pycs[j].link => IsPrefix(run.update_path, fs.pycs[j].code.fn)
    /\ \A j \in 1..Len(fs.pths) :
          \A l \in 1..Len(fs.pths[j].lines) : fs.pths[j].lines[l].k # "abs"

\* C10: after a run without --force stopped after some of its file writes,
\* a run to its end with the same new path and without --force leaves the
\* environment as a run never stopped does: every cache file, every manifest
\* and every activation script refers to the new path.
C10_RerunRecovers ==
    (/\ prev.st = "Interrupted" /\ ~prev.force /\ prev.writes # <<>>
     /\ ~run.force /\ (Done \/ st = "UpToDate"))
        => Moved

\* The environment has no config file, or its config file has no home
\* field.
CfgOptionalAbsent ==
    \/ ~fs_start.cfg.exists
    \/ \A i \in 1..Len(fs_start.cfg.lines) : fs_start.cfg.lines[i].key # "home"

\* C11: when the environment has no config file, or the config file has no
\* home field, the config step writes nothing and raises no error, and the
\* run goes on to the activation pass.
C11_CfgOptional ==
    CfgOptionalAbsent
        => /\ ~(st = "Crashed" /\ phase = "cfg")
           /\ \A i \in 1..Len(writes) : writes[i].k # "C"

\* C12: the two passes of update_scripts touch disjoint sets of files: no
\* file named as an activation script is written as a script, and the last
\* pass rewrites no other file, so no script is written twice in a run.
C12_PassesDisjoint ==
    /\ \A i \in 1..Len(writes) :
          writes[i].k = "S" => writes[i].f[Len(writes[i].f)] \notin ACTIVATION_SCRIPTS
    /\ \A i, j \in 1..Len(writes) :
          (i < j /\ writes[i].k = "S") => writes[j] # writes[i]

\* Every code object of a tree carries the source path.
RECURSIVE AllFilenames(_, _)
AllFilenames(code, path) ==
    /\ code.fn = path
    /\ \A i \in 1..Len(code.consts) : AllFilenames(code.consts[i], path)

\* The cache files update_pyc has returned from in the run.
PycsDone ==
    {j \in 1..Len(fs.pycs) :
        /\ ~fs.pycs[j].link /\ fs.pycs[j].ok
        /\ st \in {"Rewriting", "Done"}
        /\ \E k \in 1..Len(pyc_order(fs)) :
              /\ pyc_order(fs)[k] = j
              /\ PhaseNo(phase) > PhaseNo("pycs") \/ (phase = "pycs" /\ idx > k)}

\* C13: after update_pyc(file, new_path) returns, whatever source paths the
\* top code object and the nested ones carried, every code object at any
\* depth carries new_path, the other fields of every code object are as
\* they were, and the header of the file is as it was.
C13_EveryCodeObject ==
    ~restored =>
        \A j \in PycsDone :
            /\ AllFilenames(fs.pycs[j].code, get_new_path(fs.pycs[j], run.update_path))
            /\ code_eq(fs.pycs[j].code, fs_start.pycs[j].code)
            /\ fs.pycs[j].magic = fs_start.pycs[j].magic

\* The line with exactly the captured path replaced: the text before it, the
\* new path, the text after it.
Replaced(line, new_path) ==
    LET m == activation_path_re(line)
    IN SubSeq(line, 1, m.gs - 1) \o <<PathTok(new_path)>> \o SubSeq(line, m.ge, Len(line))

\* C14: update_activation_script replaces exactly the captured path of every
\* line that matches the assignment pattern (any prefix; the value unquoted
\* or quoted; with or without a newline at the end) and leaves the other
\* lines as they are.
C14_ExactlyThePath ==
    Done =>
        \A i \in ActivationFiles(fs) :
            /\ Len(fs.bin[i].lines) = Len(fs_start.bin[i].lines)
            /\ \A l \in 1..Len(fs_start.bin[i].lines) :
                  LET line == fs_start.bin[i].lines[l]
                  IN fs.bin[i].lines[l] =
                        IF activation_path_re(line).ok
                        THEN Replaced(line, run.update_path) ELSE line

\* n levels up.
Ascent(n) == [i \in 1..n |-> ".."]

\* What _update_pth_file is to leave of a file when the ascent of the three
\* layouts is pypy, windows and other levels, and whether it is to write.
PthExpected(pypy, windows, other) ==
    LET n == IF inp.is_pypy THEN pypy ELSE IF inp.is_windows THEN windows ELSE other
    IN /\ Len(fs.lines) = Len(fs_start.lines)
       /\ \A i \in 1..Len(fs_start.lines) :
             LET line == fs_start.lines[i]
             IN fs.lines[i] =
                   IF line.k = "abs"
                   THEN [k |-> "rel", p |-> Ascent(n) \o relpath(line.p, inp.orig_path)]
                   ELSE line
       /\ (writes # <<>>) = (\E i \in 1..Len(fs_start.lines) : fs_start.lines[i].k = "abs")

\* C15 as claimed: every line that is no import line and holds an absolute
\* path is replaced by the path relative to the original path, after an
\* ascent of two levels for pypy, else two levels on Windows, else three;
\* the other lines are left, and the file is written only if a line was
\* replaced.
C15_AscentListed == st = "Returned" => PthExpected(2, 2, 3)

\* C15 amended: the same with an ascent of one level for pypy, else two
\* levels on Windows, else three.
C15_AscentCode == st = "Returned" => PthExpected(1, 2, 3)

\* _update_pth_file has rewritten a line of a manifest of pypy.
C15_Witness ==
    /\ st = "Returned"
    /\ inp.is_pypy
    /\ writes # <<>>
    /\ \E i \in 1..Len(fs.lines) : fs.lines[i] # fs_start.lines[i]

====
